---- MODULE Spec2Model ----
(***************************************************************************)
(* Model of the text-escaping engine (Escape, EscapePreservingANSI), the   *)
(* panic handler RecoverPanic and the branch lookup GetCurrentBranch.      *)
(*                                                                         *)
(* A string is modelled as the sequence of its Unicode code points         *)
(* (integers).  Cursors i, j are 0-based as in the Go source; the rune at  *)
(* Go index k of a slice rs is rs[k+1].                                    *)
(***************************************************************************)
EXTENDS Integers, Sequences, FiniteSets, TLC

VARIABLES call, pc,
          content, runes, i, j, sb, pass,
          panicking, r, cleanup, createErr, eventSent, fileOpen, report,
          cleanupCalls,
          dir, fs, absDir, gitPath, branch

vars == <<call, pc, content, runes, i, j, sb, pass,
          panicking, r, cleanup, createErr, eventSent, fileOpen, report,
          cleanupCalls,
          dir, fs, absDir, gitPath, branch>>

ansiVars == <<content, runes, i, j, sb, pass>>
logVars  == <<panicking, r, cleanup, createErr, eventSent, fileOpen, report,
             cleanupCalls>>
gitVars  == <<dir, fs, absDir, gitPath, branch>>

----------------------------------------------------------------------------
(* Bounds *)

MaxLen == 4
MaxDepth == 2

----------------------------------------------------------------------------
(* Code points used by the escaper *)

ESC == 27
LBracket == 91
DEL == 127
PictureBase == 9216
DelPicture == 9249

EscPictureRaw == ESC

\* '\u241B'
EscPicture == 9243

\* SOH, ESC, '!', '1', '[', 'm', DEL : one representative of every class the
\* scanner distinguishes.
Alphabet == {1, 27, 33, 49, 91, 109, 127}

RECURSIVE SeqsUpTo(_)
SeqsUpTo(n) ==
    IF n = 0 THEN {<<>>}
    ELSE LET S == SeqsUpTo(n - 1)
         IN  S \cup {Append(s, c) : s \in {t \in S : Len(t) = n - 1}, c \in Alphabet}

\* The worked examples of the documentation, as code point sequences.
ExampleColored ==
    <<27, 91, 49, 59, 51, 49, 109, 69, 82, 82, 79, 82, 27, 91, 48, 109>>
ExampleLoneEsc == <<97, 27, 98>>
ExampleTruncated == <<120, 27, 91, 51, 49>>
ExampleInterrupted == <<27, 91, 98, 97, 33, 100>>
ExampleMixed == <<1, 27, 91, 48, 109, 2>>
ExampleCursor == <<27, 91, 63, 50, 53, 104, 31, 27, 91, 50, 75>>

\* SOH, a well-formed sequence, an interrupted one, DEL and a final ESC
ExampleAllPaths == <<1, 27, 91, 49, 109, 27, 91, 49, 33, 127, 27>>

Examples == {ExampleColored, ExampleLoneEsc, ExampleTruncated,
             ExampleInterrupted, ExampleMixed, ExampleCursor,
             ExampleAllPaths}

Inputs == SeqsUpTo(MaxLen) \cup Examples

----------------------------------------------------------------------------
(* Escape *)

EscapeSwitchNoDel(c) ==
    IF c >= 0 /\ c <= 31 THEN PictureBase + c ELSE c

\* the switch of Escape's loop body
EscapeSwitch(c) ==
    IF c >= 0 /\ c <= 31 THEN PictureBase + c
    ELSE IF c = DEL THEN DelPicture
    ELSE c

\* one iteration of `for _, r := range content`
EscapeRune ==
    /\ call = "Escape" /\ pc = "range"
    /\ i < Len(runes)
    /\ sb' = Append(sb, EscapeSwitch(runes[i + 1]))
    /\ i' = i + 1
    /\ UNCHANGED <<call, pc, content, runes, j, pass>>
    /\ UNCHANGED <<logVars, gitVars>>

EscapeReturn ==
    /\ call = "Escape" /\ pc = "range"
    /\ i >= Len(runes)
    /\ pc' = "done"
    /\ UNCHANGED <<call, ansiVars, logVars, gitVars>>

----------------------------------------------------------------------------
(* EscapePreservingANSI *)

IsLetterUpperOnly(c) == c >= 65 /\ c <= 90

\* (c >= 'A' && c <= 'Z') || (c >= 'a' && c <= 'z')
IsLetter(c) == (c >= 65 /\ c <= 90) \/ (c >= 97 /\ c <= 122)

IsParamDigitsOnly(c) == c >= 48 /\ c <= 57

\* (c >= '0' && c <= '9') || c == ';' || c == '?'
IsParam(c) == (c >= 48 /\ c <= 57) \/ c = 59 \/ c = 63

IsSeqStartAnyNext(rs, ii) ==
    rs[ii + 1] = ESC /\ ii + 1 < Len(rs)

\* r == '\x1b' && i+1 < len(runes) && runes[i+1] == '['
IsSeqStart(rs, ii) ==
    rs[ii + 1] = ESC /\ ii + 1 < Len(rs) /\ rs[ii + 2] = LBracket

SeqRunNoTerminator(rs, ii, jj) == SubSeq(rs, ii + 1, jj)

\* for k := i; k <= j; k++ { sb.WriteRune(runes[k]) }
SeqRun(rs, ii, jj) == SubSeq(rs, ii + 1, jj + 1)

\* the "normal control character handling" switch
NormalControl(c) ==
    IF c >= 0 /\ c <= 31 THEN PictureBase + c
    ELSE IF c = DEL THEN DelPicture
    ELSE c

\* Go's bounds-checked rs[k]: -1 (no rune is negative) stands for the
\* run-time panic "index out of range"
Index(rs, k) == IF k >= 0 /\ k < Len(rs) THEN rs[k + 1] ELSE -1

PostScanUnguarded(rs, jj) ==
    IF Index(rs, jj) = -1 THEN "panic"
    ELSE IF ~IsLetter(Index(rs, jj)) THEN "escape"
    ELSE "keep"

PostScanAlways(rs, jj) == "escape"

\* the condition evaluated after the inner loop:
\* j >= len(runes) || !(runes[j] is a letter)
PostScan(rs, jj) ==
    IF jj >= Len(rs) THEN "escape"
    ELSE IF Index(rs, jj) = -1 THEN "panic"
    ELSE IF ~IsLetter(Index(rs, jj)) THEN "escape"
    ELSE "keep"

\* The statements after the inner loop, applied to the builder b and the
\* cursor c the loop left behind; then `continue`.
AfterScan(b, c) ==
    LET p == PostScan(runes, j)
    IN  /\ pc' = IF p = "panic" THEN "panic" ELSE "loop"
        /\ sb' = IF p = "escape" THEN Append(b, EscPicture) ELSE b
        /\ i' = IF p = "escape" THEN c + 1 ELSE c

\* outer loop, ESC '[' seen: j := i + 2
SeqStart ==
    /\ call = "EscapePreservingANSI" /\ pc = "loop"
    /\ i < Len(runes)
    /\ IsSeqStart(runes, i)
    /\ j' = i + 2
    /\ pc' = "scan"
    /\ UNCHANGED <<call, content, runes, i, sb, pass>>
    /\ UNCHANGED <<logVars, gitVars>>

\* outer loop, no sequence start: substitute one rune
Ordinary ==
    /\ call = "EscapePreservingANSI" /\ pc = "loop"
    /\ i < Len(runes)
    /\ ~IsSeqStart(runes, i)
    /\ sb' = Append(sb, NormalControl(runes[i + 1]))
    /\ i' = i + 1
    /\ UNCHANGED <<call, pc, content, runes, j, pass>>
    /\ UNCHANGED <<logVars, gitVars>>

\* inner loop: a digit, ';' or '?'  ->  j++; continue
ScanParam ==
    /\ call = "EscapePreservingANSI" /\ pc = "scan"
    /\ j < Len(runes)
    /\ ~IsLetter(runes[j + 1])
    /\ IsParam(runes[j + 1])
    /\ j' = j + 1
    /\ UNCHANGED <<call, pc, content, runes, i, sb, pass>>
    /\ UNCHANGED <<logVars, gitVars>>

\* inner loop: a letter  ->  copy runes[i..j], i = j + 1, break
ScanTerminator ==
    /\ call = "EscapePreservingANSI" /\ pc = "scan"
    /\ j < Len(runes)
    /\ IsLetter(runes[j + 1])
    /\ AfterScan(sb \o SeqRun(runes, i, j), j + 1)
    /\ UNCHANGED <<call, content, runes, j, pass>>
    /\ UNCHANGED <<logVars, gitVars>>

\* inner loop: any other rune  ->  break
ScanInvalid ==
    /\ call = "EscapePreservingANSI" /\ pc = "scan"
    /\ j < Len(runes)
    /\ ~IsLetter(runes[j + 1])
    /\ ~IsParam(runes[j + 1])
    /\ AfterScan(sb, i)
    /\ UNCHANGED <<call, content, runes, j, pass>>
    /\ UNCHANGED <<logVars, gitVars>>

\* inner loop condition j < len(runes) fails
ScanEnd ==
    /\ call = "EscapePreservingANSI" /\ pc = "scan"
    /\ j >= Len(runes)
    /\ AfterScan(sb, i)
    /\ UNCHANGED <<call, content, runes, j, pass>>
    /\ UNCHANGED <<logVars, gitVars>>

\* outer loop condition i < len(runes) fails: return sb.String()
Return ==
    /\ call = "EscapePreservingANSI" /\ pc = "loop"
    /\ i >= Len(runes)
    /\ pc' = "done"
    /\ UNCHANGED <<call, ansiVars, logVars, gitVars>>

\* the caller feeds the result back in: EscapePreservingANSI(EscapePreservingANSI(s))
Reapply ==
    /\ call = "EscapePreservingANSI" /\ pc = "done" /\ pass = 1
    /\ content' = sb
    /\ runes' = sb
    /\ i' = 0
    /\ j' = 0
    /\ sb' = <<>>
    /\ pass' = 2
    /\ pc' = "loop"
    /\ UNCHANGED <<call, logVars, gitVars>>

----------------------------------------------------------------------------
(* RecoverPanic, run as a deferred call *)

\* r := recover(); on a panic: event.Error(r, "panic", ...)
Recover ==
    /\ call = "RecoverPanic" /\ pc = "recover"
    /\ r' = IF panicking THEN "boom" ELSE "nil"
    /\ panicking' = FALSE
    /\ eventSent' = panicking
    /\ pc' = IF panicking THEN "create" ELSE "done"
    /\ UNCHANGED <<call, cleanup, createErr, fileOpen, report, cleanupCalls>>
    /\ UNCHANGED <<ansiVars, gitVars>>

\* file, err := os.Create(filename); if err == nil { defer file.Close() ...
CreateFile ==
    /\ call = "RecoverPanic" /\ pc = "create"
    /\ fileOpen' = ~createErr
    /\ pc' = IF createErr THEN "done" ELSE "write"
    /\ UNCHANGED <<call, panicking, r, cleanup, createErr, eventSent, report,
                   cleanupCalls>>
    /\ UNCHANGED <<ansiVars, gitVars>>

\* the three fmt.Fprintf calls
WriteReport ==
    /\ call = "RecoverPanic" /\ pc = "write"
    /\ report' = <<"Panic in", "Time", "Stack Trace">>
    /\ pc' = "cleanup"
    /\ UNCHANGED <<call, panicking, r, cleanup, createErr, eventSent, fileOpen,
                   cleanupCalls>>
    /\ UNCHANGED <<ansiVars, gitVars>>

\* if cleanup != nil { cleanup() }, then the deferred file.Close()
Cleanup ==
    /\ call = "RecoverPanic" /\ pc = "cleanup"
    /\ cleanupCalls' = IF cleanup # "nil" THEN cleanupCalls + 1 ELSE cleanupCalls
    /\ fileOpen' = FALSE
    /\ pc' = "done"
    /\ UNCHANGED <<call, panicking, r, cleanup, createErr, eventSent, report>>
    /\ UNCHANGED <<ansiVars, gitVars>>

----------------------------------------------------------------------------
(* GetCurrentBranch, findGitDir, parseHeadRef *)

\* A text file is the sequence of its characters.
refPrefix ==
    <<"r", "e", "f", ":", " ", "r", "e", "f", "s", "/", "h", "e", "a", "d", "s", "/">>

Whitespace == {" ", "\n", "\t", "\r"}

RECURSIVE TrimLeft(_)
TrimLeft(s) ==
    IF s # <<>> /\ s[1] \in Whitespace THEN TrimLeft(Tail(s)) ELSE s

RECURSIVE TrimRight(_)
TrimRight(s) ==
    IF s # <<>> /\ s[Len(s)] \in Whitespace
    THEN TrimRight(SubSeq(s, 1, Len(s) - 1))
    ELSE s

TrimSpace(s) == TrimRight(TrimLeft(s))

HasPrefix(s, p) == Len(s) >= Len(p) /\ SubSeq(s, 1, Len(p)) = p

TrimPrefix(s, p) ==
    IF HasPrefix(s, p) THEN SubSeq(s, Len(p) + 1, Len(s)) ELSE s

parseHeadRef(c) ==
    IF HasPrefix(c, refPrefix) THEN TrimPrefix(c, refPrefix) ELSE <<>>

\* A directory is named by its depth below the root (0); Dir of the root is
\* the root.
FilepathDir(d) == IF d = 0 THEN 0 ELSE d - 1

IsGitDirAnyEntry(e) == e.git # "none"

\* err == nil && info.IsDir() for the entry ".git" of a directory
IsGitDir(e) == e.git = "dir"

HeadMain == refPrefix \o <<"m", "a", "i", "n", "\n">>
HeadPadded == <<" ">> \o refPrefix \o <<"d", "e", "v", " ", "\n">>
HeadDetached == <<"a", "b", "c", "1", "2", "3", "\n">>
HeadCut == <<"r", "e", "f", ":", " ", "r", "e", "f", "s", "/", "h", "e", "a", "d", "s", "\n">>
HeadContents == {HeadMain, HeadPadded, HeadDetached, HeadCut, <<>>}

\* what a directory holds under the name ".git": nothing, a regular file, or
\* a directory whose HEAD is readable (headOk) with the text head, or not
Entries ==
    {[git |-> "none", headOk |-> FALSE, head |-> <<>>],
     [git |-> "file", headOk |-> FALSE, head |-> <<>>],
     [git |-> "dir", headOk |-> FALSE, head |-> <<>>]}
    \cup {[git |-> "dir", headOk |-> TRUE, head |-> h] : h \in HeadContents}

\* absDir, err := filepath.Abs(dir); dir = -1 is a path that cannot be made
\* absolute
Abs ==
    /\ call = "GetCurrentBranch" /\ pc = "abs"
    /\ IF dir = -1
       THEN pc' = "done" /\ UNCHANGED absDir
       ELSE pc' = "stat" /\ absDir' = dir
    /\ UNCHANGED <<call, dir, fs, gitPath, branch>>
    /\ UNCHANGED <<ansiVars, logVars>>

\* the loop of findGitDir: .git is a directory here
StatFound ==
    /\ call = "GetCurrentBranch" /\ pc = "stat"
    /\ IsGitDir(fs[absDir])
    /\ gitPath' = absDir
    /\ pc' = "read"
    /\ UNCHANGED <<call, dir, fs, absDir, branch>>
    /\ UNCHANGED <<ansiVars, logVars>>

\* the loop of findGitDir: no .git directory here, go to the parent
WalkUp ==
    /\ call = "GetCurrentBranch" /\ pc = "stat"
    /\ ~IsGitDir(fs[absDir])
    /\ FilepathDir(absDir) # absDir
    /\ absDir' = FilepathDir(absDir)
    /\ UNCHANGED <<call, pc, dir, fs, gitPath, branch>>
    /\ UNCHANGED <<ansiVars, logVars>>

\* the loop of findGitDir: parent == absDir, return ""
ReachedRoot ==
    /\ call = "GetCurrentBranch" /\ pc = "stat"
    /\ ~IsGitDir(fs[absDir])
    /\ FilepathDir(absDir) = absDir
    /\ pc' = "done"
    /\ UNCHANGED <<call, gitVars>>
    /\ UNCHANGED <<ansiVars, logVars>>

\* os.ReadFile(gitPath/HEAD), then parseHeadRef(strings.TrimSpace(...))
ReadHead ==
    /\ call = "GetCurrentBranch" /\ pc = "read"
    /\ branch' = IF fs[gitPath].headOk
                 THEN parseHeadRef(TrimSpace(fs[gitPath].head))
                 ELSE <<>>
    /\ pc' = "done"
    /\ UNCHANGED <<call, dir, fs, absDir, gitPath>>
    /\ UNCHANGED <<ansiVars, logVars>>

----------------------------------------------------------------------------

AnsiIdle ==
    /\ content = <<>> /\ runes = <<>> /\ i = 0 /\ j = 0 /\ sb = <<>> /\ pass = 1

LogIdle ==
    /\ panicking = FALSE /\ r = "nil" /\ cleanup = "nil" /\ createErr = FALSE
    /\ eventSent = FALSE /\ fileOpen = FALSE /\ report = <<>>
    /\ cleanupCalls = 0

GitIdle ==
    /\ dir = 0 /\ fs = <<>> /\ absDir = 0 /\ gitPath = -1 /\ branch = <<>>

InitEscape ==
    /\ call = "Escape" /\ pc = "range"
    /\ content \in Inputs
    /\ runes = content
    /\ i = 0 /\ j = 0 /\ sb = <<>> /\ pass = 1
    /\ LogIdle /\ GitIdle

InitEscapePreservingANSI ==
    /\ call = "EscapePreservingANSI" /\ pc = "loop"
    /\ content \in Inputs
    /\ runes = content
    /\ i = 0 /\ j = 0 /\ sb = <<>> /\ pass = 1
    /\ LogIdle /\ GitIdle

InitRecoverPanic ==
    /\ call = "RecoverPanic" /\ pc = "recover"
    /\ panicking \in BOOLEAN
    /\ cleanup \in {"nil", "func"}
    /\ createErr \in BOOLEAN
    /\ r = "nil" /\ eventSent = FALSE /\ fileOpen = FALSE /\ report = <<>>
    /\ cleanupCalls = 0
    /\ AnsiIdle /\ GitIdle

InitGetCurrentBranch ==
    /\ call = "GetCurrentBranch" /\ pc = "abs"
    /\ \E d \in 0..MaxDepth :
          /\ fs \in [0..d -> Entries]
          /\ dir \in {d, -1}
    /\ absDir = 0 /\ gitPath = -1 /\ branch = <<>>
    /\ AnsiIdle /\ LogIdle

Init ==
    \/ InitEscape
    \/ InitEscapePreservingANSI
    \/ InitRecoverPanic
    \/ InitGetCurrentBranch

Next ==
    \/ EscapeRune \/ EscapeReturn
    \/ SeqStart \/ Ordinary \/ ScanParam \/ ScanTerminator \/ ScanInvalid
    \/ ScanEnd \/ Return \/ Reapply
    \/ Recover \/ CreateFile \/ WriteReport \/ Cleanup
    \/ Abs \/ StatFound \/ WalkUp \/ ReachedRoot \/ ReadHead

Spec == Init /\ [][Next]_vars

\* A call that has been started keeps running: no function here waits for
\* anything, so a step that is possible is eventually taken.
FairSpec == Spec /\ WF_vars(Next)

----------------------------------------------------------------------------
(* Vocabulary of the properties, stated independently of the scanner *)

Letters == (65..90) \cup (97..122)
ParamChars == (48..57) \cup {59, 63}
ControlChars == (0..31) \cup {127}

PictureOf(c) == IF c = 127 THEN 9249 ELSE 9216 + c

\* 0-based positions e of a terminator letter reached from the ESC at p
\* through parameter characters only
CsiEnds(rs, p) ==
    {e \in (p + 2)..(Len(rs) - 1) :
        /\ rs[e + 1] \in Letters
        /\ \A k \in (p + 2)..(e - 1) : rs[k + 1] \in ParamChars}

IsCsiAttempt(rs, p) ==
    p + 1 < Len(rs) /\ rs[p + 1] = 27 /\ rs[p + 2] = 91

WellFormedAt(rs, p) == IsCsiAttempt(rs, p) /\ CsiEnds(rs, p) # {}

MalformedAt(rs, p) == IsCsiAttempt(rs, p) /\ CsiEnds(rs, p) = {}

CsiEnd(rs, p) == CHOOSE e \in CsiEnds(rs, p) : TRUE

\* first position at or after p + 2 that is not a parameter character
ParamStop(rs, p) ==
    CHOOSE q \in (p + 2)..Len(rs) :
        /\ \A k \in (p + 2)..(q - 1) : rs[k + 1] \in ParamChars
        /\ q = Len(rs) \/ rs[q + 1] \notin ParamChars

\* k is the '[' or a parameter character of a malformed attempt
InMalformedBody(rs, k) ==
    \E p \in 0..(k - 1) : MalformedAt(rs, p) /\ k < ParamStop(rs, p)

InEPA == call = "EscapePreservingANSI"

----------------------------------------------------------------------------
\* C1: when the cursor is at the ESC of a well-formed CSI sequence, the step
\* that ends the scan appends exactly the run ESC .. letter to the output and
\* puts the cursor just after the letter.
C1Step ==
    (/\ InEPA /\ pc \in {"loop", "scan"} /\ i < Len(runes)
     /\ WellFormedAt(runes, i) /\ pc' # "scan")
    => /\ pc' = "loop"
       /\ sb' = sb \o SubSeq(runes, i + 1, CsiEnd(runes, i) + 1)
       /\ i' = CsiEnd(runes, i) + 1

C1Theorem == [][C1Step]_vars

C1Witness ==
    /\ InEPA /\ pc = "loop" /\ pass = 1
    /\ \E p \in 0..(Len(runes) - 1) :
          /\ WellFormedAt(runes, p)
          /\ CsiEnd(runes, p) >= p + 5
          /\ \E k \in (p + 2)..(p + 4) : runes[k + 1] = 59
          /\ i = CsiEnd(runes, p) + 1
          /\ SubSeq(sb, p + 1, i) = SubSeq(runes, p + 1, i)

\* C2: at the ESC of a malformed or truncated attempt the scanner emits only
\* U+241B and advances by one; the '[' and the parameter characters behind it
\* are then emitted unchanged one by one; the output always has as many code
\* points as the cursor has passed.
C2Step ==
    /\ (/\ InEPA /\ pc \in {"loop", "scan"} /\ i < Len(runes)
        /\ MalformedAt(runes, i) /\ pc' # "scan")
       => (pc' = "loop" /\ sb' = Append(sb, 9243) /\ i' = i + 1)
    /\ (/\ InEPA /\ pc = "loop" /\ i < Len(runes)
        /\ InMalformedBody(runes, i))
       => (pc' = "loop" /\ sb' = Append(sb, runes[i + 1]) /\ i' = i + 1)
    /\ (InEPA /\ pc' \in {"loop", "done"}) => Len(sb') = i'

C2Theorem == [][C2Step]_vars

C2Witness ==
    /\ InEPA /\ pc = "done" /\ pass = 1
    /\ content = ExampleTruncated
    /\ sb = <<120, 9243, 91, 51, 49>>

\* C3 as stated: ESC '[' 'b' 'a' '!' 'd' comes out as U+241B '[' 'b' 'a' '!' 'd'.
C3Original ==
    (/\ InEPA /\ pc = "done" /\ pass = 1
     /\ content = <<27, 91, 98, 97, 33, 100>>)
    => sb = <<9243, 91, 98, 97, 33, 100>>

\* C3 amended: ESC '[' 'b' is a well-formed CSI sequence with no parameters,
\* so ESC '[' 'b' 'a' '!' 'd' comes out unchanged.
C3Amended ==
    (/\ InEPA /\ pc = "done" /\ pass = 1
     /\ content = <<27, 91, 98, 97, 33, 100>>)
    => sb = <<27, 91, 98, 97, 33, 100>>

C3Witness ==
    /\ InEPA /\ pc = "done" /\ pass = 1
    /\ content = <<27, 91, 98, 97, 33, 100>>
    /\ Len(sb) = 6 /\ sb[1] = 27

\* C4: in the result every control character that does not start a
\* well-formed CSI sequence has become its Control Picture, and a control
\* character of the output is always an ESC starting ESC '[' params letter.
C4Inv ==
    (InEPA /\ pc = "done")
    => /\ Len(sb) = Len(runes)
       /\ \A k \in 0..(Len(runes) - 1) :
             (runes[k + 1] \in ControlChars /\ ~WellFormedAt(runes, k))
             => sb[k + 1] = PictureOf(runes[k + 1])
       /\ \A k \in 0..(Len(sb) - 1) :
             sb[k + 1] \in ControlChars => WellFormedAt(sb, k)

C4Witness ==
    /\ InEPA /\ pc = "done" /\ pass = 1
    /\ \E p, q, e \in 0..(Len(runes) - 1) :
          /\ runes[p + 1] = 27 /\ ~IsCsiAttempt(runes, p) /\ sb[p + 1] = 9243
          /\ WellFormedAt(runes, q) /\ sb[q + 1] = 27
          /\ runes[e + 1] = 127 /\ sb[e + 1] = 9249
    /\ runes[Len(runes)] = 27

\* C5: Escape maps the code points one by one and in order: 0x00-0x1F to
\* U+2400 + c, DEL to U+2421, anything else to itself; an input without
\* control characters comes back unchanged.
C5Inv ==
    call = "Escape"
    => /\ Len(sb) = i
       /\ \A k \in 1..Len(sb) :
             sb[k] = IF content[k] \in 0..31 THEN 9216 + content[k]
                     ELSE IF content[k] = 127 THEN 9249
                     ELSE content[k]
       /\ pc = "done" =>
             /\ i = Len(content)
             /\ (\A k \in 1..Len(content) : content[k] \notin ControlChars)
                => sb = content

C5Witness ==
    /\ call = "Escape" /\ pc = "done"
    /\ \E a, b, c \in 1..Len(content) :
          /\ content[a] = 1 /\ sb[a] = 9217
          /\ content[b] = 127 /\ sb[b] = 9249
          /\ content[c] = 109 /\ sb[c] = 109

\* C6: the result of Escape and of EscapePreservingANSI has exactly as many
\* code points as the input; the empty input gives the empty result.
C6Inv ==
    (call \in {"Escape", "EscapePreservingANSI"} /\ pc = "done")
    => /\ Len(sb) = Len(content)
       /\ content = <<>> => sb = <<>>

C6Witness ==
    /\ InEPA /\ pc = "done" /\ pass = 1
    /\ Len(sb) = Len(content)
    /\ \E p, q \in 0..(Len(content) - 1) :
          /\ WellFormedAt(content, p)
          /\ MalformedAt(content, q)
          /\ content[Len(content)] \in ControlChars

\* C7: every iteration of the outer loop moves the cursor forward (by one on
\* the ordinary and invalid paths, to just behind the terminator on the
\* well-formed path), the inner loop moves j forward, neither cursor passes
\* the end of the code point sequence, no read is out of range, and every
\* call that has been started returns.
C7Step ==
    InEPA
    => /\ (pc \in {"loop", "scan"} /\ pc' = "loop") => i' > i
       /\ (pc = "loop" /\ pc' = "loop") => i' = i + 1
       /\ (pc = "scan" /\ pc' = "loop") =>
             \/ i' = i + 1
             \/ i' = j + 1 /\ j >= i + 2 /\ runes[j + 1] \in Letters
       /\ (pc = "loop" /\ pc' = "scan") => (i' = i /\ j' = i + 2)
       /\ (pc = "scan" /\ pc' = "scan") => (i' = i /\ j' = j + 1)
       /\ (pc = "loop" /\ pc' = "done") => i = Len(runes)
       /\ i' <= Len(runes')
       /\ pc' = "scan" => j' <= Len(runes')
       /\ pc' # "panic"

C7Theorem ==
    /\ [][C7Step]_vars
    /\ (InEPA /\ pc \in {"loop", "scan"}) ~> (pc = "done")

C7Witness ==
    /\ InEPA /\ pc = "done" /\ pass = 1
    /\ i = Len(runes)
    /\ Len(runes) >= 2
    /\ runes[Len(runes) - 1] = 27 /\ runes[Len(runes)] = 91

\* C8: applying EscapePreservingANSI to its own result changes nothing.
C8Inv ==
    (InEPA /\ pc = "done" /\ pass = 2) => sb = content

C8Witness ==
    /\ InEPA /\ pc = "done" /\ pass = 2
    /\ sb = content
    /\ \E p, q, e \in 1..Len(content) :
          /\ content[p] = 27
          /\ content[q] = 9243
          /\ content[e] = 9249

\* C9 as stated: a recovered panic always has cleanup invoked when it is
\* non-nil, whether or not the crash-report file could be created, and a
\* report is written when the file could be created; without a panic nothing
\* happens.
C9Claim ==
    (call = "RecoverPanic" /\ pc = "done")
    => IF r # "nil"
       THEN /\ cleanup # "nil" => cleanupCalls = 1
            /\ ~createErr => report # <<>>
       ELSE cleanupCalls = 0 /\ report = <<>> /\ ~eventSent

----------------------------------------------------------------------------
(* GetCurrentBranch: the lookup described independently of the walk *)

GitLevels == {k \in 0..dir : fs[k].git = "dir"}

NearestGit == CHOOSE g \in GitLevels : \A k \in GitLevels : k <= g

\* t is s without its leading and trailing whitespace
IsTrimOf(t, s) ==
    \E a, b \in 0..Len(s) :
       /\ a + b <= Len(s)
       /\ t = SubSeq(s, a + 1, Len(s) - b)
       /\ \A k \in 1..a : s[k] \in Whitespace
       /\ \A k \in (Len(s) - b + 1)..Len(s) : s[k] \in Whitespace
       /\ t # <<>> => (t[1] \notin Whitespace /\ t[Len(t)] \notin Whitespace)

StartsWithRef(t) ==
    /\ Len(t) >= 16
    /\ \A k \in 1..16 : t[k] = refPrefix[k]

ExpectedBranch(b) ==
    IF dir = -1 \/ GitLevels = {} THEN b = <<>>
    ELSE LET h == fs[NearestGit]
         IN  IF ~h.headOk THEN b = <<>>
             ELSE \E x, y \in 0..Len(h.head) :
                     LET t == SubSeq(h.head, x + 1, Len(h.head) - y)
                     IN  /\ x + y <= Len(h.head)
                         /\ IsTrimOf(t, h.head)
                         /\ IF StartsWithRef(t)
                            THEN t = refPrefix \o b
                            ELSE b = <<>>

\* C10: the result is the text behind "ref: refs/heads/" in the trimmed HEAD
\* of the nearest directory at or above dir that holds a .git directory, and
\* empty when there is none, when HEAD cannot be read or when it does not
\* name a branch; the walk goes one level up per step and ends at the root.
C10Inv ==
    (call = "GetCurrentBranch" /\ pc = "done") => ExpectedBranch(branch)

C10Step ==
    call = "GetCurrentBranch"
    => /\ (pc = "stat" /\ pc' = "stat") => (absDir' = absDir - 1 /\ absDir' >= 0)
       /\ (pc = "stat" /\ pc' = "done") => absDir = 0
       /\ (pc = "stat" /\ pc' = "read") =>
             (gitPath' \in GitLevels /\ \A k \in GitLevels : k <= gitPath')

C10Theorem == []C10Inv /\ [][C10Step]_vars

C10Witness ==
    /\ call = "GetCurrentBranch" /\ pc = "done"
    /\ dir = 2 /\ gitPath = 0 /\ fs[1].git = "file"
    /\ fs[0].head = HeadPadded
    /\ branch = <<"d", "e", "v">>

====
